---- MODULE Spec2Model ----
(***************************************************************************)
(* svcs.django: the Django adapter of the svcs service locator.            *)
(*                                                                         *)
(* State: the app configs (the one Django holds under the label "django",  *)
(* which SvcsMiddleware looks up, and a project's own config built from    *)
(* DjangoSvcsAppConfigMixin), the Registry objects, the Container objects  *)
(* and, per request, the position of SvcsMiddleware.__call__ and the       *)
(* attribute it stashes.  Requests run in threads, so the steps of         *)
(* different requests interleave.  Registry and Container live in          *)
(* svcs._core; what this module uses of them is modelled from their        *)
(* documented interface.  Only the positional arguments of the             *)
(* registration calls are modelled (enter, ping and on_registry_close are  *)
(* passed through untouched), and get() is called with one service type.   *)
(***************************************************************************)
EXTENDS Integers, FiniteSets, Sequences, TLC

\* ---- bounds ----
MaxInstances == 2
MaxRegistrations == 1
MaxGets == 2

\* ---- universe ----
Requests == {1, 2}
ContainerIds == {1, 2}
RegistryIds == {1, 2}
Apps == {"django", "example"}
AppKinds == {"mixin", "plain"}
Types == {"Service", "AnotherService"}
Values == {42, 23}
Factories == {"f", "g"}
Responses == {"r200", "r404"}

NoObj == 0

NoBinding == [kind |-> "none", by |-> "", v |-> 0]
ValueBinding(v) == [kind |-> "value", by |-> "", v |-> v]
FactoryBinding(f) == [kind |-> "factory", by |-> f, v |-> 0]

NoInst == [kind |-> "none", by |-> "", id |-> 0]

EmptyServices == [t \in Types |-> NoBinding]
EmptyCache == [t \in Types |-> NoInst]
NoContainer == [registry |-> NoObj, instantiated |-> EmptyCache]

\* What a call yields: the object it returns, or the exception it raises.
Ok(obj) == [obj |-> obj, err |-> ""]
Raise(err) == [obj |-> NoObj, err |-> err]

VARIABLES
    appKind,        \* class of the config under label "django": the mixin or a plain AppConfig
    appRegistry,    \* app config -> its registry attribute (NoObj is None)
    services,       \* Registry object -> its type-to-binding map (Registry._services)
    regOrigin,      \* Registry object -> who constructed it ("" while not constructed)
    registrations,  \* number of registrations made at configuration level (bounded)
    containers,     \* Container object -> [registry, instantiated]
    nextContainer,  \* number of Container objects constructed
    nextInst,       \* number of objects the factories have made
    pc,             \* request -> position of SvcsMiddleware.__call__
    local,          \* request -> the local variable `container` of __call__
    attr,           \* request -> the attribute _KEY_CONTAINER of the request object
    calls,          \* request -> number of times get_response was invoked
    handled,        \* request -> what the next handler returned
    result,         \* request -> what __call__ returned
    exc,            \* request -> exception __call__ raised
    gets,           \* request -> type -> what get() returned since the last close(), in order
    overwrote,      \* request -> type -> factory of the request's last overwrite_factory
    trace           \* outcomes of the calls that leave no other mark

vars == <<appKind, appRegistry, services, regOrigin, registrations, containers,
          nextContainer, nextInst, pc, local, attr, calls, handled, result, exc,
          gets, overwrote, trace>>

appVars == <<appKind, appRegistry, services, regOrigin, registrations>>
containerVars == <<containers, nextContainer, nextInst>>
requestVars == <<pc, local, attr, calls, handled, result, exc>>
historyVars == <<gets, overwrote, trace>>

\* ---- svcs._core, as this module uses it ----

\* Registry objects are always truthy (Registry defines neither __bool__ nor __len__).
Truthy(reg) == reg # NoObj

\* Registry.register_factory / register_value: the binding of svc_type is replaced.
RegistryRegister(svcs, reg, t, b) == [svcs EXCEPT ![reg][t] = b]

\* What the registered factory yields: a value binding yields the value itself,
\* a factory binding a new object (numbered by the invocation).
Instantiate(b, n) ==
    IF b.kind = "value" THEN [kind |-> "value", by |-> "", id |-> b.v]
    ELSE [kind |-> "made", by |-> b.by, id |-> n]

\* Container._lookup: the cache first, then the registry.
IsCached(c, t) == containers[c].instantiated[t] # NoInst
IsRegistered(c, t) == services[containers[c].registry][t] # NoBinding

\* Container.get runs the factory: the type is registered and not cached.
RunsFactory(c, t) == ~IsCached(c, t) /\ IsRegistered(c, t)

\* Container.get(svc_type): the instance get returns.
ContainerGetInst(c, t) ==
    IF IsCached(c, t) THEN containers[c].instantiated[t]
    ELSE Instantiate(services[containers[c].registry][t], nextInst + 1)

\* Container.get(svc_type): the containers afterwards (the instance is cached).
ContainerGet(c, t) ==
    [containers EXCEPT ![c].instantiated[t] = ContainerGetInst(c, t)]

\* Container.close(): the instantiation cache is cleared.
ContainerClose(c) == [containers EXCEPT ![c].instantiated = EmptyCache]

\* ---- svcs.django: calls that only read ----

\* svcs_from(request): getattr(request, _KEY_CONTAINER)
svcs_from(r) ==
    IF attr[r] = NoObj THEN Raise("AttributeError") ELSE Ok(attr[r])

\* get_registry(app) with the ValueError check left out.
get_registry_unchecked(a) == Ok(appRegistry[a])

\* get_registry(app)
get_registry(a) ==
    IF ~Truthy(appRegistry[a]) THEN Raise("ValueError") ELSE Ok(appRegistry[a])

\* The config apps.get_app_config("django") hands out.
AppConfigLabel == "django"

\* The class of an app config: the project's own config always has the mixin.
KindOf(a) == IF a = AppConfigLabel THEN appKind ELSE "mixin"

\* _get_registry with the isinstance check left out.
MwGetRegistryUntyped == get_registry(AppConfigLabel)

\* SvcsMiddleware._get_registry
MwGetRegistry ==
    IF KindOf(AppConfigLabel) = "falsy" THEN Raise("ValueError")
    ELSE IF KindOf(AppConfigLabel) # "mixin" THEN Raise("TypeError")
    ELSE get_registry(AppConfigLabel)

\* svcs_from() without the request: the parameter is required.
svcs_from_noarg == Raise("TypeError")

\* get_registry() without an app: the parameter is required.
get_registry_noarg == Raise("TypeError")

\* get_registry(request): a request object has no attribute `registry`.
get_registry_request(r) == Raise("AttributeError")

Init ==
    /\ appKind \in AppKinds
    /\ appRegistry = [a \in Apps |-> NoObj]
    /\ services = [g \in RegistryIds |-> EmptyServices]
    /\ regOrigin = [g \in RegistryIds |-> ""]
    /\ registrations = 0
    /\ containers = [c \in ContainerIds |-> NoContainer]
    /\ nextContainer = 0
    /\ nextInst = 0
    /\ pc = [r \in Requests |-> "new"]
    /\ local = [r \in Requests |-> NoObj]
    /\ attr = [r \in Requests |-> NoObj]
    /\ calls = [r \in Requests |-> 0]
    /\ handled = [r \in Requests |-> ""]
    /\ result = [r \in Requests |-> ""]
    /\ exc = [r \in Requests |-> ""]
    /\ gets = [r \in Requests |-> [t \in Types |-> <<>>]]
    /\ overwrote = [r \in Requests |-> [t \in Types |-> ""]]
    /\ trace = {}

\* ---- configuration: calls made on the app configs ----

\* Registry(): the next Registry object not yet constructed.
HasFresh == \E g \in RegistryIds : regOrigin[g] = ""
Fresh ==
    IF HasFresh
    THEN CHOOSE g \in RegistryIds :
            regOrigin[g] = "" /\ \A h \in RegistryIds : h < g => regOrigin[h] # ""
    ELSE NoObj

\* No request has reached the middleware yet (configuration time).
Setup == \A r \in Requests : pc[r] = "new"

\* ready() that constructs a Registry whether or not one is in place.
ReadyRegistryAlways(a) == Fresh

\* DjangoSvcsAppConfigMixin.ready: self.registry afterwards.
ReadyRegistry(a) == IF ~Truthy(appRegistry[a]) THEN Fresh ELSE appRegistry[a]

\* ready(): what it writes.
ReadyWrites(a) ==
    /\ KindOf(a) = "mixin"
    /\ ReadyRegistry(a) # NoObj
    /\ appRegistry' = [appRegistry EXCEPT ![a] = ReadyRegistry(a)]
    /\ regOrigin' = IF ReadyRegistry(a) = appRegistry[a] THEN regOrigin
                    ELSE [regOrigin EXCEPT ![ReadyRegistry(a)] = "ready"]
    /\ UNCHANGED <<appKind, services, registrations, containerVars, requestVars,
                   gets, overwrote>>

Ready(a) == ReadyWrites(a) /\ UNCHANGED trace

\* ready(), with a note of the runs that found a registry in place.
ReadyNoted(a) ==
    /\ ReadyWrites(a)
    /\ trace' = IF ~Truthy(appRegistry[a]) THEN trace
                ELSE IF services[appRegistry[a]] = EmptyServices
                THEN trace \cup {<<a, "ready", "again">>}
                ELSE trace \cup {<<a, "ready", "again, with bindings">>}

\* app.registry = registry, as the project (or a test fixture) does at
\* configuration time with a Registry it constructed.
AssignRegistry(a) ==
    /\ KindOf(a) = "mixin"
    /\ Setup
    /\ HasFresh
    /\ appRegistry' = [appRegistry EXCEPT ![a] = Fresh]
    /\ regOrigin' = [regOrigin EXCEPT ![Fresh] = "assigned"]
    /\ UNCHANGED <<appKind, services, registrations, containerVars, requestVars,
                   historyVars>>

\* The registry register_factory / register_value of this module write to.
ConfigRegistry(a) == appRegistry[a]

\* register_factory(config, ...) and register_value(config, ...): forwarded to
\* config.registry; when that is None the call raises and changes nothing.
Register(a, t, b) ==
    /\ KindOf(a) = "mixin"
    /\ IF ConfigRegistry(a) = NoObj
       THEN UNCHANGED <<services, registrations>>
       ELSE /\ registrations < MaxRegistrations
            /\ services' = RegistryRegister(services, ConfigRegistry(a), t, b)
            /\ registrations' = registrations + 1
    /\ UNCHANGED <<appKind, appRegistry, regOrigin, containerVars, requestVars,
                   historyVars>>

RegisterFactory(a, t, f) == Register(a, t, FactoryBinding(f))

RegisterValue(a, t, v) == Register(a, t, ValueBinding(v))

\* registry.register_value(...) called on a Registry object itself.
RegistryRegisterValue(g, t, v) ==
    /\ regOrigin[g] # ""
    /\ registrations < MaxRegistrations
    /\ services' = RegistryRegister(services, g, t, ValueBinding(v))
    /\ registrations' = registrations + 1
    /\ UNCHANGED <<appKind, appRegistry, regOrigin, containerVars, requestVars,
                   historyVars>>

\* How a call ended: the name of the exception, or "returned".
Outcome(y) == IF y.err = "" THEN "returned" ELSE y.err

\* get_registry(app) called by the project: it returns or raises, and writes nothing.
CallGetRegistry(a) ==
    /\ KindOf(a) = "mixin"
    /\ trace' = trace \cup {<<a, "get_registry", Outcome(get_registry(a))>>}
    /\ UNCHANGED <<appVars, containerVars, requestVars, gets, overwrote>>

\* ---- SvcsMiddleware.__call__, one request per thread ----

\* One Container object, constructed for the first request and used for every request.
SharedContainerId == IF nextContainer = 0 THEN nextContainer + 1 ELSE nextContainer

\* svcs.Container(...): a new Container object.
NewContainerId == nextContainer + 1

\* container = svcs.Container(self._get_registry())
MwBuild(r) ==
    /\ pc[r] = "new"
    /\ IF MwGetRegistry.err # ""
       THEN /\ pc' = [pc EXCEPT ![r] = "raised"]
            /\ exc' = [exc EXCEPT ![r] = MwGetRegistry.err]
            /\ UNCHANGED <<containers, nextContainer, local>>
       ELSE /\ containers' = [containers EXCEPT ![NewContainerId] =
                                 [registry |-> MwGetRegistry.obj,
                                  instantiated |-> EmptyCache]]
            /\ nextContainer' = nextContainer + 1
            /\ local' = [local EXCEPT ![r] = NewContainerId]
            /\ pc' = [pc EXCEPT ![r] = "built"]
            /\ UNCHANGED exc
    /\ UNCHANGED <<appVars, nextInst, attr, calls, handled, result, historyVars>>

\* __call__ without the setattr.
NotStashed(r) == attr[r]

\* setattr(request, _KEY_CONTAINER, container): the attribute afterwards.
Stashed(r) == local[r]

MwStash(r) ==
    /\ pc[r] = "built"
    /\ attr' = [attr EXCEPT ![r] = Stashed(r)]
    /\ pc' = [pc EXCEPT ![r] = "stashed"]
    /\ UNCHANGED <<appVars, containerVars, local, calls, handled, result, exc,
                   historyVars>>

\* self.get_response(request) is entered.
MwInvoke(r) ==
    /\ pc[r] = "stashed"
    /\ calls' = [calls EXCEPT ![r] = @ + 1]
    /\ pc' = [pc EXCEPT ![r] = "handler"]
    /\ UNCHANGED <<appVars, containerVars, local, attr, handled, result, exc,
                   historyVars>>

\* return self.get_response(request): what __call__ returns.
MwResult(resp) == resp

HandlerReturn(r, resp) ==
    /\ pc[r] = "handler"
    /\ handled' = [handled EXCEPT ![r] = resp]
    /\ result' = [result EXCEPT ![r] = MwResult(resp)]
    /\ pc' = [pc EXCEPT ![r] = "done"]
    /\ UNCHANGED <<appVars, containerVars, local, attr, calls, exc, historyVars>>

\* ---- what a view does with the request ----

\* get() that asks the factory each time and keeps nothing in the container.
GetDetached(r, t) == containers

\* get(request, svc_type) forwards to the stashed container: the containers afterwards.
GetForward(r, t) == ContainerGet(svcs_from(r).obj, t)

\* get(request, svc_type)
ViewGet(r, t) ==
    /\ pc[r] = "handler"
    /\ Len(gets[r][t]) < MaxGets
    /\ LET s == svcs_from(r)
           c == s.obj
       IN IF s.err # "" \/ (~IsCached(c, t) /\ ~IsRegistered(c, t))
          THEN \* AttributeError, or ServiceNotFoundError from Container.get
               UNCHANGED <<containers, nextInst, gets>>
          ELSE /\ RunsFactory(c, t) /\ ContainerGetInst(c, t).kind = "made"
                    => nextInst < MaxInstances
               /\ containers' = GetForward(r, t)
               /\ nextInst' = IF RunsFactory(c, t) /\ ContainerGetInst(c, t).kind = "made"
                              THEN nextInst + 1 ELSE nextInst
               /\ gets' = [gets EXCEPT ![r][t] = Append(@, ContainerGetInst(c, t))]
    /\ UNCHANGED <<appVars, nextContainer, requestVars, overwrote, trace>>

\* overwrite_factory registering on a registry of its own.
OverwriteRegistryPrivate(c) == 3 - containers[c].registry

\* container.registry of overwrite_factory: the registry it registers on.
OverwriteRegistry(c) == containers[c].registry

\* overwrite_factory without the close().
OverwriteCloseSkipped(c) == containers

\* container.close() of overwrite_factory: the containers afterwards.
OverwriteClose(c) == ContainerClose(c)

\* overwrite_factory(request, svc_type, factory)
ViewOverwriteFactory(r, t, f) ==
    /\ pc[r] = "handler"
    /\ LET s == svcs_from(r)
           c == s.obj
       IN IF s.err # ""
          THEN UNCHANGED <<services, containers, gets, overwrote>>
          ELSE /\ services' = RegistryRegister(services, OverwriteRegistry(c), t,
                                               FactoryBinding(f))
               /\ containers' = OverwriteClose(c)
               /\ gets' = [gets EXCEPT ![r] = [u \in Types |-> <<>>]]
               /\ overwrote' = [overwrote EXCEPT ![r][t] = f]
    /\ UNCHANGED <<appKind, appRegistry, regOrigin, registrations, nextContainer,
                   nextInst, requestVars, trace>>

\* svcs_from(request), called by whoever holds the request.
CallSvcsFrom(r) ==
    /\ trace' = trace \cup {<<"view", "svcs_from(request)", Outcome(svcs_from(r))>>}
    /\ UNCHANGED <<appVars, containerVars, requestVars, gets, overwrote>>

\* svcs_from() called by a view.
ViewSvcsFromNoArg(r) ==
    /\ pc[r] = "handler"
    /\ trace' = trace \cup {<<"view", "svcs_from()", Outcome(svcs_from_noarg)>>}
    /\ UNCHANGED <<appVars, containerVars, requestVars, gets, overwrote>>

\* get_registry() called by a view.
ViewGetRegistryNoArg(r) ==
    /\ pc[r] = "handler"
    /\ trace' = trace \cup {<<"view", "get_registry()", Outcome(get_registry_noarg)>>}
    /\ UNCHANGED <<appVars, containerVars, requestVars, gets, overwrote>>

\* get_registry(request) called by a view.
ViewGetRegistryRequest(r) ==
    /\ pc[r] = "handler"
    /\ trace' = trace \cup {<<"view", "get_registry(request)",
                              Outcome(get_registry_request(r))>>}
    /\ UNCHANGED <<appVars, containerVars, requestVars, gets, overwrote>>

\* ---- specifications ----

\* Configuration calls on the app configs in A, for the service types in T
\* and the values in V.
ConfigStep(A, T, V) ==
    \/ \E a \in A : Ready(a)
    \/ \E a \in A : AssignRegistry(a)
    \/ \E a \in A, t \in T, f \in Factories : RegisterFactory(a, t, f)
    \/ \E a \in A, t \in T, v \in V : RegisterValue(a, t, v)
    \/ \E g \in RegistryIds, t \in T, v \in V : RegistryRegisterValue(g, t, v)

\* The middleware serving the requests in R.
MiddlewareStep(R) ==
    \/ \E r \in R : MwBuild(r)
    \/ \E r \in R : MwStash(r)
    \/ \E r \in R : MwInvoke(r)
    \/ \E r \in R, resp \in Responses : HandlerReturn(r, resp)

\* The views of the requests in R using the service types in T.
ViewStep(R, T) ==
    \/ \E r \in R, t \in T : ViewGet(r, t)
    \/ \E r \in R, t \in T, f \in Factories : ViewOverwriteFactory(r, t, f)

\* The calls the integration test makes without passing the request or an app.
ThreadLocalStep(R) ==
    \/ \E r \in R : CallSvcsFrom(r)
    \/ \E r \in R : ViewSvcsFromNoArg(r)
    \/ \E r \in R : ViewGetRegistryNoArg(r)
    \/ \E r \in R : ViewGetRegistryRequest(r)

\* Two requests in flight against the installed app, contending for one service type.
Next ==
    \/ ConfigStep({AppConfigLabel}, {"Service"}, {42})
    \/ MiddlewareStep(Requests)
    \/ ViewStep(Requests, {"Service"})

Spec == Init /\ [][Next]_vars

\* One request using both service types.
NextTypes ==
    \/ ConfigStep({AppConfigLabel}, Types, Values)
    \/ MiddlewareStep({1})
    \/ ViewStep({1}, Types)

SpecTypes == Init /\ [][NextTypes]_vars

\* The configuration life cycle of both app configs.
NextConfig ==
    \/ ConfigStep(Apps, Types, Values)
    \/ \E a \in Apps : ReadyNoted(a)
    \/ \E a \in Apps : CallGetRegistry(a)

SpecConfig == Init /\ [][NextConfig]_vars

\* A project that configures its own app config next to the installed one.
NextProject ==
    \/ ConfigStep(Apps, {"Service"}, {42})
    \/ MiddlewareStep({1})
    \/ ViewStep({1}, {"Service"})

SpecProject == Init /\ [][NextProject]_vars

\* The view of the integration test.
NextThreadLocal ==
    \/ ConfigStep({AppConfigLabel}, {"Service"}, {42})
    \/ MiddlewareStep({1})
    \/ ViewStep({1}, {"Service"})
    \/ ThreadLocalStep({1})

SpecThreadLocal == Init /\ [][NextThreadLocal]_vars

\* ---- properties ----

Elems(s) == {s[i] : i \in 1..Len(s)}
Newest(s) == s[Len(s)]
RegistryOf(r) == containers[attr[r]].registry
CacheOf(r) == containers[attr[r]].instantiated
Made(f, n) == [kind |-> "made", by |-> f, id |-> n]

\* C1: the middleware builds a new container bound to the app's registry, then
\* stashes it on the request, and only then invokes the next handler, once; while
\* the handler runs svcs_from(request) is that container, and what __call__
\* returns is what the handler returned.
C1_MiddlewareOrder ==
    \A r \in Requests :
        /\ pc[r] \in {"new", "raised"} =>
              local[r] = NoObj /\ attr[r] = NoObj /\ calls[r] = 0
        /\ pc[r] = "built" => local[r] # NoObj /\ attr[r] = NoObj /\ calls[r] = 0
        /\ pc[r] = "stashed" => local[r] # NoObj /\ attr[r] = local[r] /\ calls[r] = 0
        /\ pc[r] \in {"built", "stashed"} =>
              containers[local[r]].instantiated = EmptyCache
        /\ pc[r] \in {"built", "stashed", "handler", "done"} =>
              /\ containers[local[r]].registry # NoObj
              /\ containers[local[r]].registry = appRegistry[AppConfigLabel]
        /\ pc[r] \in {"handler", "done"} =>
              calls[r] = 1 /\ local[r] # NoObj /\ svcs_from(r) = Ok(local[r])
        /\ pc[r] = "done" => handled[r] \in Responses /\ result[r] = handled[r]
        /\ pc[r] # "done" => result[r] = "" /\ handled[r] = ""

C1_Witness ==
    /\ pc[1] = "handler" /\ svcs_from(1) = Ok(local[1])
    /\ pc[2] = "done" /\ result[2] = "r404"

\* C2 as stated: two requests get two distinct containers bound to the same app
\* registry, and no instance get() returned on one request is returned on the other.
C2_Original ==
    \A r1, r2 \in Requests :
        (r1 # r2 /\ attr[r1] # NoObj /\ attr[r2] # NoObj) =>
            /\ attr[r1] # attr[r2]
            /\ RegistryOf(r1) = RegistryOf(r2)
            /\ RegistryOf(r1) = appRegistry[AppConfigLabel]
            /\ \A t1, t2 \in Types :
                  Elems(gets[r1][t1]) \cap Elems(gets[r2][t2]) = {}

\* C2, amended: two requests get two distinct containers bound to the same app
\* registry, and no object a factory made for one request is returned by get() on
\* the other (a value registered with register_value is the same in every request).
C2_PerRequestContainers ==
    \A r1, r2 \in Requests :
        (r1 # r2 /\ attr[r1] # NoObj /\ attr[r2] # NoObj) =>
            /\ attr[r1] # attr[r2]
            /\ RegistryOf(r1) = RegistryOf(r2)
            /\ RegistryOf(r1) = appRegistry[AppConfigLabel]
            /\ \A t1, t2 \in Types :
                  \A i \in Elems(gets[r1][t1]) \cap Elems(gets[r2][t2]) :
                      i.kind = "value"

C2_Witness ==
    /\ gets[1]["Service"] # <<>> /\ gets[1]["Service"][1].kind = "made"
    /\ gets[2]["Service"] # <<>> /\ gets[2]["Service"][1].kind = "made"
    /\ gets[1]["Service"][1].by = gets[2]["Service"][1].by

\* C3: within one request, as long as the container is not closed, every get of a
\* type returns the identical instance, which is the one the request's container
\* holds and returns.
C3_GetIsStable ==
    \A r \in Requests, t \in Types :
        gets[r][t] # <<>> =>
            /\ \A i \in 1..Len(gets[r][t]) : gets[r][t][i] = gets[r][t][1]
            /\ attr[r] # NoObj
            /\ IsCached(attr[r], t)
            /\ ContainerGetInst(svcs_from(r).obj, t) = gets[r][t][1]

C3_Witness ==
    /\ Len(gets[1]["Service"]) = 2
    /\ gets[1]["Service"][1].kind = "made"
    /\ gets[1]["AnotherService"] # <<>>

\* C4: a binding registered on an app config's registry is the one every request
\* uses: the registry the registration helpers write to is the registry of the
\* request's container, and get returns the value registered there.
C4_RegisteredBindingIsServed ==
    \A a \in Apps, r \in Requests :
        (KindOf(a) = "mixin" /\ ConfigRegistry(a) # NoObj /\ pc[r] = "handler") =>
            /\ RegistryOf(r) = ConfigRegistry(a)
            /\ \A t \in Types, v \in Values :
                  (services[ConfigRegistry(a)][t] = ValueBinding(v)
                   /\ ~IsCached(attr[r], t))
                  => ContainerGetInst(attr[r], t) = Instantiate(ValueBinding(v), 0)

\* C5 as stated: after overwrite_factory(request, T, f) the first get(request, T)
\* returns an instance produced by f.
C5_Original ==
    \A r \in Requests, t \in Types :
        (overwrote[r][t] # "" /\ gets[r][t] # <<>>) =>
            gets[r][t][1].kind = "made" /\ gets[r][t][1].by = overwrote[r][t]

\* C5, amended: overwrite_factory(request, T, f) binds T to f in the registry of
\* the request's container, empties that container's cache and leaves the same
\* container on the request; the next get(request, T) returns a new instance of
\* whatever is bound to T then, which is f unless T was registered again in between.
C5_OverwriteThenGet ==
    /\ [][\A r \in Requests, t \in Types, f \in Factories :
            (ViewOverwriteFactory(r, t, f) /\ attr[r] # NoObj) =>
                /\ services'[RegistryOf(r)][t] = FactoryBinding(f)
                /\ containers'[attr[r]].instantiated = EmptyCache
                /\ containers'[attr[r]].registry = RegistryOf(r)
                /\ attr' = attr]_vars
    /\ [][\A r \in Requests, t \in Types :
            (ViewGet(r, t) /\ overwrote[r][t] # "" /\ gets[r][t] = <<>>
             /\ gets'[r][t] # <<>>) =>
                /\ gets'[r][t][1] = Instantiate(services[RegistryOf(r)][t], nextInst + 1)
                /\ services[RegistryOf(r)][t] = FactoryBinding(overwrote[r][t]) =>
                      /\ gets'[r][t][1] = Made(overwrote[r][t], nextInst + 1)
                      /\ \A c \in ContainerIds, u \in Types :
                            containers[c].instantiated[u] # gets'[r][t][1]]_vars

C5_Witness ==
    /\ pc[2] = "new"
    /\ overwrote[1]["Service"] = "g"
    /\ gets[1]["Service"] = <<Made("g", 2)>>

\* C6: get_registry(app) returns the registry stored on the app config when one is
\* set and raises ValueError when it is None; it writes nothing, so a later ready()
\* still creates the registry and get_registry(app) then returns it.
C6_GetRegistry ==
    /\ [](\A a \in Apps :
            KindOf(a) = "mixin" =>
                IF appRegistry[a] = NoObj THEN get_registry(a) = Raise("ValueError")
                ELSE get_registry(a) = Ok(appRegistry[a]))
    /\ [][\A a \in Apps :
            CallGetRegistry(a) => UNCHANGED <<appVars, containerVars, requestVars>>]_vars
    /\ [][\A a \in Apps :
            (ReadyWrites(a) /\ appRegistry[a] = NoObj) =>
                /\ appRegistry'[a] # NoObj
                /\ regOrigin'[appRegistry'[a]] = "ready"
                /\ get_registry(a)' = Ok(appRegistry'[a])]_vars

C6_Witness ==
    \E a \in Apps :
        /\ <<a, "get_registry", "ValueError">> \in trace
        /\ <<a, "get_registry", "returned">> \in trace
        /\ regOrigin[appRegistry[a]] = "ready"

\* C7: the registry is unset before the first ready(); ready() creates a registry
\* when none is set, and otherwise leaves the registry object and every binding
\* in place, whether ready() or an explicit assignment put it there.
C7_ReadyIdempotent ==
    /\ \A a \in Apps : appRegistry[a] = NoObj
    /\ [][\A a \in Apps :
            ReadyWrites(a) =>
                IF appRegistry[a] # NoObj
                THEN UNCHANGED <<appRegistry, services, regOrigin>>
                ELSE /\ appRegistry'[a] # NoObj
                     /\ regOrigin[appRegistry'[a]] = ""
                     /\ services' = services
                     /\ services[appRegistry'[a]] = EmptyServices
                     /\ \A b \in Apps \ {a} : appRegistry'[b] = appRegistry[b]]_vars

C7_Witness ==
    \E a, b \in Apps :
        /\ <<a, "ready", "again, with bindings">> \in trace
        /\ regOrigin[appRegistry[a]] = "ready"
        /\ services[appRegistry[a]] # EmptyServices
        /\ <<b, "ready", "again">> \in trace
        /\ regOrigin[appRegistry[b]] = "assigned"

\* C8: while a view runs, svcs_from() returns the request's container and
\* get_registry() and get_registry(request) return the registry it is bound to.
C8_ThreadLocals ==
    \A r \in Requests :
        pc[r] = "handler" =>
            /\ svcs_from(r) = Ok(attr[r])
            /\ svcs_from_noarg = svcs_from(r)
            /\ get_registry_noarg = Ok(RegistryOf(r))
            /\ get_registry_request(r) = Ok(RegistryOf(r))

\* C9 as stated: after overwrite_factory(A, T, f) a get(B, T) by another request
\* returns an instance produced by f when B has not cached T, and B's cached
\* instance otherwise.
C9_Original ==
    [][\A a, b \in Requests, t \in Types :
          (a # b /\ overwrote[a][t] # "" /\ ViewGet(b, t) /\ attr[b] # NoObj
           /\ gets'[b][t] # gets[b][t]) =>
              IF IsCached(attr[b], t)
              THEN Newest(gets'[b][t]) = CacheOf(b)[t]
              ELSE Newest(gets'[b][t]) = Made(overwrote[a][t], nextInst + 1)]_vars

\* C9, amended: overwrite_factory(A, T, f) binds T to f in the registry every
\* request's container is bound to and leaves the other containers' caches alone;
\* afterwards a get(B, T) by another request returns B's cached instance when it
\* has one, and otherwise a new instance produced by f as long as f is still what
\* is bound to T.
C9_SharedRegistry ==
    /\ [][\A a, b \in Requests, t \in Types, f \in Factories :
            (a # b /\ ViewOverwriteFactory(a, t, f) /\ attr[a] # NoObj
             /\ attr[b] # NoObj) =>
                /\ services'[RegistryOf(b)][t] = FactoryBinding(f)
                /\ containers'[attr[b]] = containers[attr[b]]
                /\ gets'[b] = gets[b]]_vars
    /\ [][\A a, b \in Requests, t \in Types :
            (a # b /\ overwrote[a][t] # "" /\ ViewGet(b, t) /\ attr[b] # NoObj
             /\ gets'[b][t] # gets[b][t]) =>
                IF IsCached(attr[b], t)
                THEN Newest(gets'[b][t]) = CacheOf(b)[t]
                ELSE services[RegistryOf(b)][t] = FactoryBinding(overwrote[a][t]) =>
                        Newest(gets'[b][t]) = Made(overwrote[a][t], nextInst + 1)]_vars

C9_Witness ==
    /\ registrations = 0
    /\ overwrote[1]["Service"] = "g" /\ overwrote[2]["Service"] = ""
    /\ gets[1]["Service"] # <<>>
    /\ gets[2]["Service"] = <<Made("g", 2)>>

\* C10: when the config under label "django" lacks the mixin __call__ raises
\* TypeError, and when its registry is unset it raises ValueError; in both cases
\* no container was built or attached (svcs_from(request) raises) and the next
\* handler is never invoked.
C10_FailsBeforeTouching ==
    /\ [](\A r \in Requests :
            pc[r] = "raised" =>
                /\ attr[r] = NoObj /\ local[r] = NoObj /\ calls[r] = 0
                /\ svcs_from(r) = Raise("AttributeError")
                /\ exc[r] = IF appKind # "mixin" THEN "TypeError" ELSE "ValueError")
    /\ [][\A r \in Requests :
            MwBuild(r) =>
                /\ appKind # "mixin" => pc'[r] = "raised" /\ exc'[r] = "TypeError"
                /\ (appKind = "mixin" /\ appRegistry[AppConfigLabel] = NoObj) =>
                      pc'[r] = "raised" /\ exc'[r] = "ValueError"
                /\ pc'[r] = "raised" =>
                      UNCHANGED <<attr, calls, containers, nextContainer>>]_vars
    /\ [][\A r \in Requests : pc[r] = "raised" => pc'[r] = "raised"]_vars

C10_Witness ==
    /\ pc[1] = "raised" /\ exc[1] = "ValueError"
    /\ svcs_from(1) = Raise("AttributeError")
    /\ pc[2] = "handler"

====
